---- MODULE Spec2Model ----
(***************************************************************************)
(* Free-fall simulator with quadratic air drag (React App component).      *)
(*                                                                         *)
(* Numbers are fixed point integers, one unit per quantity:                *)
(*   simulation time      tu   = 1e-4 s     (FIXED_STEP 0.01 s = 100 tu)   *)
(*   wall clock           ms                                               *)
(*   y, height            mm                                               *)
(*   v                    mm/s                                             *)
(*   a, gravity           mm/s^2                                           *)
(*   mass                 g                                                *)
(*   airDensity           1e-3 kg/m^3                                      *)
(*   dragCoeff            1e-2                                             *)
(*   diameter, radius     mm                                               *)
(*   area                 cm^2 (1e-4 m^2)                                  *)
(*   forces               mN                                               *)
(*   timeScale            tenths                                           *)
(* Every product is rescaled with rounding to nearest (MulDiv), which      *)
(* stands for the rounding of the doubles the code computes with.          *)
(* NaN and the two infinities of a double are three reserved values.       *)
(***************************************************************************)
EXTENDS Integers, Sequences, FiniteSets, TLC

VARIABLES
    params,        \* useState<SimulationParams>
    physicsState,  \* useRef<SimulationState>: the live physics state
    displayState,  \* useState<SimulationState>: the published copy
    history,       \* useState<DataPoint[]>
    isPlaying,     \* useState(false)
    requestRef,    \* TRUE when an animation frame is requested
    lastTimeRef,   \* Null, or the age in ms of the frame timestamp it holds
    timerLeft,     \* Null, or the ms left until the pending setTimeout fires
    frames,        \* animate calls since the state was last reset
    mounted,       \* the mount effects have run
    lastOp,        \* the handler that ran last
    lastCmd,       \* the control-surface command issued last (Start/Pause/Reset)
    subSteps,      \* stepPhysics calls made by the last animate call
    edits,         \* parameter replacements made so far
    stepIn,        \* the state the last direct stepPhysics call was applied to
    stepDt,        \* the dt of the last direct stepPhysics call
    stepCalls,     \* direct stepPhysics calls made so far
    restart,       \* "armed" from a Start on a landed state to the next
                   \* animate call, "ticked" right after that call
    fresh,         \* playing began and no animate call has run since
    rawMs,         \* the ms between the last animate call and the timestamp
                   \* it found in lastTimeRef, Null when it found none
    twin,          \* a second drop stepped side by side with physicsState:
                   \* its params and its state; Null in the component
    impact,        \* the newV of the landing step of each of the two drops,
                   \* Null until it lands
    budget,        \* the wall-clock time of the advancing animate calls since
                   \* the last reset, each scaled by the timeScale it ran with
    plain          \* the component of src/App.tsx given the same ticks and
                   \* commands: its states, history and loop control, as a
                   \* sequence of one record, empty when part_000 is run alone

vars == <<params, physicsState, displayState, history, isPlaying, requestRef,
          lastTimeRef, timerLeft, frames, mounted, lastOp, lastCmd, subSteps,
          edits, stepIn, stepDt, stepCalls, restart, fresh, rawMs, twin,
          impact, budget, plain>>

----------------------------------------------------------------------------
(* Reserved values *)

Null == -1
NaN == 2000000000
PosInf == 2000000001
NegInf == -2000000001

isNaN(x) == x = NaN
isFinite(x) == x \notin {NaN, PosInf, NegInf}

----------------------------------------------------------------------------
(* Fixed point helpers *)

Abs(x) == IF x < 0 THEN -x ELSE x
Sign(x) == IF x > 0 THEN 1 ELSE IF x < 0 THEN -1 ELSE 0
Min(x, y) == IF x < y THEN x ELSE y

\* n / d rounded to the nearest integer (d > 0)
RoundDiv(n, d) == (2 * n + d) \div (2 * d)

\* x * y / d rounded to nearest, computed without forming x * y
MulDivSplit(x, y, d) == (x \div d) * y + RoundDiv((x % d) * y, d)
MulDiv(x, y, d) ==
    IF Abs(x) >= Abs(y) THEN MulDivSplit(x, y, d) ELSE MulDivSplit(y, x, d)

----------------------------------------------------------------------------
(* Program constants *)

PiNum == 355
PiDen == 113
MAX_VELOCITY == 500000
FIXED_STEP == 100
MAX_FRAME_DT == 1000
SAMPLE_INTERVAL == 300
HISTORY_CAP == 500
TIMER_DELAY == 10

DEFAULT_PARAMS ==
    [mass |-> 10000, height |-> 200000, dragCoeff |-> 47, airDensity |-> 1225,
     diameter |-> 500, gravity |-> 9810, timeScale |-> 10]

\* variant of InitialDrop: the height is read from a field the params lack
InitialDropUnset(p) ==
    [time |-> 0, y |-> NaN, v |-> 0, a |-> -p.gravity, hasLanded |-> FALSE]

InitialDrop(p) ==
    [time |-> 0, y |-> p.height, v |-> 0, a |-> -p.gravity, hasLanded |-> FALSE]

InitialSample(p) ==
    [time |-> 0, position |-> p.height, velocity |-> 0, acceleration |-> -p.gravity]

----------------------------------------------------------------------------
(* Integrator: stepPhysics *)

\* variant of Fg: the sign of the weight is lost
FgUpward(p) == RoundDiv(p.mass * p.gravity, 1000)

Fg(p) == -RoundDiv(p.mass * p.gravity, 1000)

radius(p) == p.diameter \div 2

area(p) == RoundDiv(PiNum * radius(p) * radius(p), PiDen * 100)

\* variant of dragMagnitude: an air density of 0 is taken for a missing value
\* and replaced by the default
dragMagnitudeDefaultAir(p, v) ==
    MulDiv(MulDiv(MulDiv(IF p.airDensity = 0 THEN DEFAULT_PARAMS.airDensity
                                             ELSE p.airDensity,
                         MulDiv(v, v, 1000), 2000),
                  p.dragCoeff, 100),
           area(p), 10000)

dragMagnitude(p, v) ==
    MulDiv(MulDiv(MulDiv(p.airDensity, MulDiv(v, v, 1000), 2000),
                  p.dragCoeff, 100),
           area(p), 10000)

\* variant of dragForce: the drag acts along the velocity
dragForceAlong(p, v) == IF v = 0 THEN 0 ELSE Sign(v) * dragMagnitude(p, v)

\* variant of dragForce: the drag always points up
dragForceUp(p, v) == dragMagnitude(p, v)

dragForce(p, v) == IF v = 0 THEN 0 ELSE -Sign(v) * dragMagnitude(p, v)

Fnet(p, v) == Fg(p) + dragForce(p, v)

Accel(p, v) == MulDiv(Fnet(p, v), 1000, p.mass)

\* variant of ClampV: the clamp left out
ClampVNone(newV) == newV

ClampV(newV) ==
    IF Abs(newV) > MAX_VELOCITY THEN Sign(newV) * MAX_VELOCITY ELSE newV

\* let newV = v + a * dt, before the clamp
RawNewV(current, p, dt) == current.v + MulDiv(Accel(p, current.v), dt, 10000)

\* variant of Diverged: only the velocity is examined
DivergedVOnly(current) == isNaN(current.v) \/ ~isFinite(current.v)

Diverged(current) ==
    isNaN(current.y) \/ isNaN(current.v) \/ ~isFinite(current.v)

\* variant of Collide: the impact keeps the velocity and the acceleration
CollideKeepV(newY, newV, a, newTime) ==
    IF newY <= 0
    THEN [time |-> newTime, y |-> 0, v |-> newV, a |-> a, hasLanded |-> TRUE]
    ELSE [time |-> newTime, y |-> newY, v |-> newV, a |-> a,
          hasLanded |-> FALSE]

\* variant of Collide: the impact keeps the position it computed
CollideKeepY(newY, newV, a, newTime) ==
    IF newY <= 0
    THEN [time |-> newTime, y |-> newY, v |-> 0, a |-> 0, hasLanded |-> TRUE]
    ELSE [time |-> newTime, y |-> newY, v |-> newV, a |-> a,
          hasLanded |-> FALSE]

\* variant of Collide: the impact stops the body and does not flag it landed
CollideNoFlag(newY, newV, a, newTime) ==
    IF newY <= 0
    THEN [time |-> newTime, y |-> 0, v |-> 0, a |-> 0, hasLanded |-> FALSE]
    ELSE [time |-> newTime, y |-> newY, v |-> newV, a |-> a,
          hasLanded |-> FALSE]

\* the ground collision branch
Collide(newY, newV, a, newTime) ==
    IF newY <= 0
    THEN [time |-> newTime, y |-> 0, v |-> 0, a |-> 0, hasLanded |-> TRUE]
    ELSE [time |-> newTime, y |-> newY, v |-> newV, a |-> a,
          hasLanded |-> FALSE]

\* variant of Integrate: the position moves with the velocity before the step
IntegrateOldVelocity(current, p, dt) ==
    LET a == Accel(p, current.v)
        newV == ClampV(current.v + MulDiv(a, dt, 10000))
        newY == current.y + MulDiv(current.v, dt, 10000)
        newTime == current.time + dt
    IN  Collide(newY, newV, a, newTime)

\* variant of Integrate: the new time is dt, not current.time + dt
IntegrateRestartsClock(current, p, dt) ==
    LET a == Accel(p, current.v)
        newV == ClampV(current.v + MulDiv(a, dt, 10000))
        newY == current.y + MulDiv(newV, dt, 10000)
    IN  Collide(newY, newV, a, dt)

\* variant of Integrate: advances by FIXED_STEP whatever dt it is given
IntegrateFixedStep(current, p, dt) ==
    LET a == Accel(p, current.v)
        newV == ClampV(current.v + MulDiv(a, FIXED_STEP, 10000))
        newY == current.y + MulDiv(newV, FIXED_STEP, 10000)
        newTime == current.time + FIXED_STEP
    IN  Collide(newY, newV, a, newTime)

Integrate(current, p, dt) ==
    LET a == Accel(p, current.v)
        newV == ClampV(current.v + MulDiv(a, dt, 10000))
        newY == current.y + MulDiv(newV, dt, 10000)
        newTime == current.time + dt
    IN  Collide(newY, newV, a, newTime)

\* variant of stepPhysics: the clock keeps running on a landed state
stepPhysicsClock(current, p, dt) ==
    IF current.hasLanded THEN [current EXCEPT !.time = @ + dt]
    ELSE IF Diverged(current) THEN InitialDrop(p)
    ELSE Integrate(current, p, dt)

stepPhysics(current, p, dt) ==
    IF current.hasLanded THEN current
    ELSE IF Diverged(current) THEN InitialDrop(p)
    ELSE Integrate(current, p, dt)

----------------------------------------------------------------------------
(* Bounds and input sets of the model *)

MaxFrames == 5
MaxEdits == 3

\* wall-clock gaps between two frames, ms: a slow frame and a stalled one
FrameGaps == {66, 120}

\* values the control surface can set (ControlPanel sliders and buttons)
ParamEdits ==
    {<<"height", 10000>>, <<"gravity", 1620>>, <<"timeScale", 50>>}

----------------------------------------------------------------------------
(* Stepper: animate *)

\* const rawDt = (time - lastTimeRef.current) / 1000, for a frame that comes
\* d ms after the previous event
rawDt(age, d) == (age + d) * 10

\* variant of cappedDt: the frame time is not capped
cappedDtNone(age, d) == rawDt(age, d)

\* variant of cappedDt: Math.max in place of Math.min
cappedDtMax(age, d) == IF rawDt(age, d) > MAX_FRAME_DT THEN rawDt(age, d)
                       ELSE MAX_FRAME_DT

cappedDt(age, d) == Min(rawDt(age, d), MAX_FRAME_DT)

\* variant of deltaTime: the speed multiplier is not applied (as in App.tsx)
deltaTimeUnscaled(age, d, p) == cappedDt(age, d)

\* const deltaTime = cappedDt * timeScale
deltaTime(age, d, p) == (cappedDt(age, d) * p.timeScale) \div 10

\* variant of subStepLoop: every pass feeds a whole FIXED_STEP
RECURSIVE subStepLoopWholeSteps(_, _, _, _)
subStepLoopWholeSteps(state, p, remainingDt, calls) ==
    IF remainingDt > 0
    THEN IF ~state.hasLanded
         THEN subStepLoopWholeSteps(stepPhysics(state, p, FIXED_STEP), p,
                                    remainingDt - FIXED_STEP, calls + 1)
         ELSE subStepLoopWholeSteps(state, p, remainingDt - FIXED_STEP, calls)
    ELSE [state |-> state, calls |-> calls]

\* while (remainingDt > 0) { ... }: the final state and the stepPhysics calls made
RECURSIVE subStepLoop(_, _, _, _)
subStepLoop(state, p, remainingDt, calls) ==
    IF remainingDt > 0
    THEN LET step == Min(remainingDt, FIXED_STEP)
         IN  IF ~state.hasLanded
             THEN subStepLoop(stepPhysics(state, p, step), p,
                              remainingDt - step, calls + 1)
             ELSE subStepLoop(state, p, remainingDt - step, calls)
    ELSE [state |-> state, calls |-> calls]

NewPoint(s) ==
    [time |-> s.time, position |-> s.y, velocity |-> s.v, acceleration |-> s.a]

\* variant of Evict: nothing is evicted
EvictNone(newArr) == newArr

\* variant of Evict: the cap is MAX_HISTORY_POINTS = 200 of constants.ts
EvictAtMaxPoints(newArr) ==
    IF Len(newArr) > 200
    THEN SubSeq(newArr, Len(newArr) - 200 + 1, Len(newArr))
    ELSE newArr

\* variant of Evict: the newest points are cut off, slice(0, 500)
EvictNewest(newArr) ==
    IF Len(newArr) > HISTORY_CAP THEN SubSeq(newArr, 1, HISTORY_CAP) ELSE newArr

\* newArr.slice(newArr.length - 500) once the cap is exceeded
Evict(newArr) ==
    IF Len(newArr) > HISTORY_CAP
    THEN SubSeq(newArr, Len(newArr) - HISTORY_CAP + 1, Len(newArr))
    ELSE newArr

\* variant of ShouldSample: a point exactly 0.03 s after the last is sampled
ShouldSampleInclusive(prev, s) ==
    \/ Len(prev) = 0
    \/ s.time - prev[Len(prev)].time >= SAMPLE_INTERVAL
    \/ s.hasLanded

\* variant of ShouldSample: a landing is sampled like any other state
ShouldSampleNoLanding(prev, s) ==
    \/ Len(prev) = 0
    \/ s.time - prev[Len(prev)].time > SAMPLE_INTERVAL

ShouldSample(prev, s) ==
    \/ Len(prev) = 0
    \/ s.time - prev[Len(prev)].time > SAMPLE_INTERVAL
    \/ s.hasLanded

\* the updater passed to setHistory in animate
UpdateHistory(prev, s) ==
    IF ShouldSample(prev, s) THEN Evict(Append(prev, NewPoint(s))) ELSE prev

----------------------------------------------------------------------------
(* Effects *)

\* variant of Rederives: the guard does not look at the time
RederivesAnyTime(playing, s) == ~playing

\* variant of Rederives: the effect does not look at isPlaying
RederivesWhilePlaying(playing, s) == s.time = 0

\* useEffect(..., [params.height, params.gravity, isPlaying]): its guard
Rederives(playing, s) == ~playing /\ s.time = 0

RederivedState(s, p) == [s EXCEPT !.y = p.height, !.a = -p.gravity]

\* variant of RederiveEffect: the published state is not updated
RederiveEffectNoPublish(p) ==
    /\ physicsState' = RederivedState(physicsState, p)
    /\ displayState' = displayState
    /\ history' = <<InitialSample(p)>>

\* variant of RederiveEffect: the initial sample is appended to the history
RederiveEffectAppends(p) ==
    /\ physicsState' = RederivedState(physicsState, p)
    /\ displayState' = RederivedState(displayState, p)
    /\ history' = Append(history, InitialSample(p))

\* the effect's body
RederiveEffect(p) ==
    /\ physicsState' = RederivedState(physicsState, p)
    /\ displayState' = RederivedState(displayState, p)
    /\ history' = <<InitialSample(p)>>

----------------------------------------------------------------------------
(* The component of src/App.tsx, side by side with that of part_000: each   *)
(* handler as a function of the record in plain. The two are given the      *)
(* same ticks and commands, so a command is issued when both render its     *)
(* button, and animate is called when both have a frame requested.          *)

\* const a = Fnet / params.mass, from the forces
AppAccel(p, v) ==
    LET weight == -RoundDiv(p.mass * p.gravity, 1000)
        r == p.diameter \div 2
        crossSection == RoundDiv(PiNum * r * r, PiDen * 100)
        magnitude ==
            MulDiv(MulDiv(MulDiv(p.airDensity, MulDiv(v, v, 1000), 2000),
                          p.dragCoeff, 100),
                   crossSection, 10000)
        drag == IF v = 0 THEN 0 ELSE -Sign(v) * magnitude
    IN  MulDiv(weight + drag, 1000, p.mass)

\* variant of AppStepPhysics: the position moves with the old velocity
AppStepPhysicsOldVelocity(current, p, dt) ==
    IF current.hasLanded THEN current
    ELSE LET a == AppAccel(p, current.v)
             newV == current.v + MulDiv(a, dt, 10000)
             newY == current.y + MulDiv(current.v, dt, 10000)
             newTime == current.time + dt
         IN  IF newY <= 0
             THEN [time |-> newTime, y |-> 0, v |-> 0, a |-> 0,
                   hasLanded |-> TRUE]
             ELSE [time |-> newTime, y |-> newY, v |-> newV, a |-> a,
                   hasLanded |-> FALSE]

\* stepPhysics(dt): no divergence guard, no velocity clamp
AppStepPhysics(current, p, dt) ==
    IF current.hasLanded THEN current
    ELSE LET a == AppAccel(p, current.v)
             newV == current.v + MulDiv(a, dt, 10000)
             newY == current.y + MulDiv(newV, dt, 10000)
             newTime == current.time + dt
         IN  IF newY <= 0
             THEN [time |-> newTime, y |-> 0, v |-> 0, a |-> 0,
                   hasLanded |-> TRUE]
             ELSE [time |-> newTime, y |-> newY, v |-> newV, a |-> a,
                   hasLanded |-> FALSE]

\* const deltaTime = Math.min((time - lastTimeRef.current) / 1000, 0.1)
AppDeltaTime(age, d) == Min((age + d) * 10, MAX_FRAME_DT)

\* while (remainingDt > 0) { ... }
RECURSIVE AppSubStepLoop(_, _, _)
AppSubStepLoop(state, p, remainingDt) ==
    IF remainingDt > 0
    THEN LET step == Min(remainingDt, FIXED_STEP)
         IN  AppSubStepLoop(IF ~state.hasLanded
                            THEN AppStepPhysics(state, p, step) ELSE state,
                            p, remainingDt - step)
    ELSE state

\* setHistory(prev => ...)
AppSetHistory(prev, s) ==
    IF \/ Len(prev) = 0
       \/ s.time - prev[Len(prev)].time > SAMPLE_INTERVAL
       \/ s.hasLanded
    THEN LET newArr == Append(prev, [time |-> s.time, position |-> s.y,
                                     velocity |-> s.v, acceleration |-> s.a])
         IN  IF Len(newArr) > HISTORY_CAP
             THEN SubSeq(newArr, Len(newArr) - HISTORY_CAP + 1, Len(newArr))
             ELSE newArr
    ELSE prev

\* the effect of [params.height, params.gravity, isPlaying]
AppRederive(u, p) ==
    IF ~u.isPlaying /\ u.physicsState.time = 0
    THEN [u EXCEPT !.physicsState = [@ EXCEPT !.y = p.height,
                                              !.a = -p.gravity],
                   !.displayState = [@ EXCEPT !.y = p.height,
                                              !.a = -p.gravity],
                   !.history = <<[time |-> 0, position |-> p.height,
                                  velocity |-> 0,
                                  acceleration |-> -p.gravity]>>]
    ELSE u

\* the two effects on the first render
AppMount(u, p) == AppRederive([u EXCEPT !.lastTimeRef = Null], p)

\* animate(time), d ms after the previous event
AppAnimate(u, p, d) ==
    IF u.lastTimeRef = Null THEN [u EXCEPT !.lastTimeRef = 0]
    ELSE LET s == AppSubStepLoop(u.physicsState, p,
                                 AppDeltaTime(u.lastTimeRef, d))
         IN  [u EXCEPT !.physicsState = s,
                       !.displayState = s,
                       !.history = AppSetHistory(@, s),
                       !.isPlaying = IF s.hasLanded THEN FALSE ELSE @,
                       !.lastTimeRef = IF s.hasLanded THEN Null ELSE 0,
                       !.requestRef = ~s.hasLanded /\ u.isPlaying]

\* handleReset, and the effect of isPlaying after it
AppHandleReset(u, p) ==
    [u EXCEPT !.isPlaying = FALSE,
              !.physicsState = [time |-> 0, y |-> p.height, v |-> 0,
                                a |-> -p.gravity, hasLanded |-> FALSE],
              !.displayState = [time |-> 0, y |-> p.height, v |-> 0,
                                a |-> -p.gravity, hasLanded |-> FALSE],
              !.history = <<[time |-> 0, position |-> p.height, velocity |-> 0,
                             acceleration |-> -p.gravity]>>,
              !.lastTimeRef = Null,
              !.requestRef = FALSE]

\* handleStart
AppHandleStart(u, p) ==
    IF u.physicsState.hasLanded
    THEN [AppHandleReset(u, p) EXCEPT !.timer = TRUE]
    ELSE [u EXCEPT !.isPlaying = TRUE, !.requestRef = TRUE]

\* setTimeout(() => setIsPlaying(true), 10) firing, elapsed ms after the
\* previous event
AppTimerFire(u, elapsed) ==
    [u EXCEPT !.timer = FALSE,
              !.isPlaying = TRUE,
              !.requestRef = TRUE,
              !.lastTimeRef = IF @ = Null THEN Null ELSE @ + elapsed]

\* handlePause and the two effects of isPlaying
AppHandlePause(u, p) ==
    AppRederive([u EXCEPT !.isPlaying = FALSE,
                          !.lastTimeRef = Null,
                          !.requestRef = FALSE], p)

\* setParams from the control surface: p is the new value of params
AppUpdateParam(u, key, p) ==
    IF key \in {"height", "gravity"} THEN AppRederive(u, p) ELSE u

\* the record in plain after construction with the given state and history
AppIdleWith(s, h) ==
    [physicsState |-> s, displayState |-> s, history |-> h,
     isPlaying |-> FALSE, requestRef |-> FALSE, lastTimeRef |-> Null,
     timer |-> FALSE]

----------------------------------------------------------------------------
(* State after construction, before the mount effects *)

Init ==
    /\ params = DEFAULT_PARAMS
    /\ physicsState = InitialDrop(DEFAULT_PARAMS)
    /\ displayState = InitialDrop(DEFAULT_PARAMS)
    /\ history = << >>
    /\ isPlaying = FALSE
    /\ requestRef = FALSE
    /\ lastTimeRef = Null
    /\ timerLeft = Null
    /\ frames = 0
    /\ mounted = FALSE
    /\ lastOp = "init"
    /\ lastCmd = "none"
    /\ subSteps = 0
    /\ edits = 0
    /\ stepIn = InitialDrop(DEFAULT_PARAMS)
    /\ stepDt = 0
    /\ stepCalls = 0
    /\ restart = "none"
    /\ fresh = FALSE
    /\ rawMs = Null
    /\ budget = 0
    /\ twin = Null
    /\ impact = Null
    /\ plain = << >>

\* first render: both effects run once
Mount ==
    /\ ~mounted
    /\ mounted' = TRUE
    /\ lastTimeRef' = Null
    /\ IF Rederives(isPlaying, physicsState)
       THEN RederiveEffect(params)
       ELSE UNCHANGED <<physicsState, displayState, history>>
    /\ lastOp' = "mount"
    /\ plain' = IF plain = << >> THEN << >>
                ELSE <<AppMount(plain[1], params)>>
    /\ UNCHANGED <<params, isPlaying, requestRef, timerLeft, frames, lastCmd,
                   subSteps, edits, stepIn, stepDt, stepCalls, restart, fresh,
                   rawMs, budget,
                   twin, impact>>

\* the first call after start or resume: lastTimeRef.current = time
Baseline ==
    /\ lastTimeRef' = 0
    /\ requestRef' = TRUE
    /\ subSteps' = 0
    /\ UNCHANGED <<physicsState, displayState, history, isPlaying>>

\* variant of Advance: a landing does not stop the playing
AdvanceKeepsPlaying(d) ==
    LET r == subStepLoop(physicsState, params,
                         deltaTime(lastTimeRef, d, params), 0)
    IN  /\ physicsState' = r.state
        /\ subSteps' = r.calls
        /\ displayState' = r.state
        /\ history' = UpdateHistory(history, r.state)
        /\ isPlaying' = isPlaying
        /\ lastTimeRef' = 0
        /\ requestRef' = (isPlaying /\ ~r.state.hasLanded)

\* variant of Advance: the state is published before the sub-step loop
AdvancePublishesFirst(d) ==
    LET r == subStepLoop(physicsState, params,
                         deltaTime(lastTimeRef, d, params), 0)
    IN  /\ physicsState' = r.state
        /\ subSteps' = r.calls
        /\ displayState' = physicsState
        /\ history' = UpdateHistory(history, r.state)
        /\ IF r.state.hasLanded
           THEN /\ isPlaying' = FALSE
                /\ lastTimeRef' = Null
                /\ requestRef' = FALSE
           ELSE /\ isPlaying' = isPlaying
                /\ lastTimeRef' = 0
                /\ requestRef' = isPlaying

\* every later call: sub-steps, landing, publish, history, next request
Advance(d) ==
    LET r == subStepLoop(physicsState, params,
                         deltaTime(lastTimeRef, d, params), 0)
    IN  /\ physicsState' = r.state
        /\ subSteps' = r.calls
        /\ displayState' = r.state
        /\ history' = UpdateHistory(history, r.state)
        /\ IF r.state.hasLanded
           THEN /\ isPlaying' = FALSE
                /\ lastTimeRef' = Null
                /\ requestRef' = FALSE
           ELSE /\ isPlaying' = isPlaying
                /\ lastTimeRef' = 0
                /\ requestRef' = isPlaying

\* animate(time), called by the browser d ms after the previous event; a
\* pending timer whose delay is shorter than d fires first
animate(d) ==
    /\ mounted
    /\ requestRef
    /\ IF plain = << >> THEN TRUE ELSE plain[1].requestRef
    /\ frames < MaxFrames
    /\ timerLeft = Null \/ d <= timerLeft
    /\ timerLeft' = IF timerLeft = Null THEN Null ELSE timerLeft - d
    /\ frames' = frames + 1
    /\ lastOp' = "animate"
    /\ plain' = IF plain = << >> THEN << >>
                ELSE <<AppAnimate(plain[1], params, d)>>
    /\ restart' = IF restart = "armed" THEN "ticked" ELSE "none"
    /\ fresh' = FALSE
    /\ rawMs' = IF lastTimeRef = Null THEN Null ELSE lastTimeRef + d
    /\ budget' = IF lastTimeRef = Null THEN budget
                 ELSE budget + (rawDt(lastTimeRef, d) * params.timeScale)
                               \div 10
    /\ IF lastTimeRef = Null THEN Baseline ELSE Advance(d)
    /\ UNCHANGED <<params, mounted, lastCmd, edits, stepIn, stepDt, stepCalls,
                   twin, impact>>

\* variant of ResetBody: the history is left as it is
ResetBodyKeepsHistory ==
    /\ isPlaying' = FALSE
    /\ physicsState' = InitialDrop(params)
    /\ displayState' = InitialDrop(params)
    /\ history' = history
    /\ lastTimeRef' = Null
    /\ requestRef' = FALSE
    /\ frames' = 0
    /\ fresh' = FALSE
    /\ rawMs' = Null
    /\ budget' = 0

\* variant of ResetBody: the reset state is not published
ResetBodyNoPublish ==
    /\ isPlaying' = FALSE
    /\ physicsState' = InitialDrop(params)
    /\ displayState' = displayState
    /\ history' = <<InitialSample(params)>>
    /\ lastTimeRef' = Null
    /\ requestRef' = FALSE
    /\ frames' = 0
    /\ fresh' = FALSE
    /\ rawMs' = Null
    /\ budget' = 0

\* the body of handleReset
ResetBody ==
    /\ isPlaying' = FALSE
    /\ physicsState' = InitialDrop(params)
    /\ displayState' = InitialDrop(params)
    /\ history' = <<InitialSample(params)>>
    /\ lastTimeRef' = Null
    /\ requestRef' = FALSE
    /\ frames' = 0
    /\ fresh' = FALSE
    /\ rawMs' = Null
    /\ budget' = 0

handleReset ==
    /\ mounted
    /\ ResetBody
    /\ lastOp' = "handleReset"
    /\ plain' = IF plain = << >> THEN << >>
                ELSE <<AppHandleReset(plain[1], params)>>
    /\ lastCmd' = "Reset"
    /\ UNCHANGED <<params, timerLeft, mounted, subSteps, edits, stepIn,
                   stepDt, stepCalls, restart,
                   twin, impact>>

\* variant of StartLanded: the start is scheduled without the reset
StartLandedNoReset ==
    /\ timerLeft' = TIMER_DELAY
    /\ restart' = "armed"
    /\ UNCHANGED <<isPlaying, physicsState, displayState, history, lastTimeRef,
                   requestRef, frames, fresh, rawMs, budget>>

\* handleStart on a landed state: reset, then start 10 ms later
StartLanded ==
    /\ ResetBody
    /\ timerLeft' = TIMER_DELAY
    /\ restart' = "armed"

\* variant of StartNow: the run starts again from the drop configuration
StartNowFromTop ==
    /\ isPlaying' = TRUE
    /\ requestRef' = TRUE
    /\ fresh' = TRUE
    /\ physicsState' = InitialDrop(params)
    /\ displayState' = InitialDrop(params)
    /\ UNCHANGED <<history, lastTimeRef, timerLeft, frames, restart, rawMs,
                   budget>>

\* handleStart otherwise
StartNow ==
    /\ isPlaying' = TRUE
    /\ requestRef' = TRUE
    /\ fresh' = TRUE
    /\ UNCHANGED <<physicsState, displayState, history, lastTimeRef,
                   timerLeft, frames, restart, rawMs, budget>>

\* the Start button is rendered while not playing
handleStart ==
    /\ mounted
    /\ ~isPlaying
    /\ IF plain = << >> THEN TRUE ELSE ~plain[1].isPlaying
    /\ IF physicsState.hasLanded THEN StartLanded ELSE StartNow
    /\ lastOp' = "handleStart"
    /\ plain' = IF plain = << >> THEN << >>
                ELSE <<AppHandleStart(plain[1], params)>>
    /\ lastCmd' = "Start"
    /\ UNCHANGED <<params, mounted, subSteps, edits, stepIn, stepDt, stepCalls,
                   twin, impact>>

\* setTimeout(() => setIsPlaying(true), 10) firing
TimerFire ==
    /\ timerLeft # Null
    /\ IF plain = << >> THEN TRUE ELSE plain[1].timer
    /\ timerLeft' = Null
    /\ isPlaying' = TRUE
    /\ requestRef' = TRUE
    /\ lastTimeRef' = IF lastTimeRef = Null THEN Null ELSE lastTimeRef + timerLeft
    /\ fresh' = (isPlaying => fresh)
    /\ lastOp' = "timer"
    /\ plain' = IF plain = << >> THEN << >>
                ELSE <<AppTimerFire(plain[1], timerLeft)>>
    /\ UNCHANGED <<params, physicsState, displayState, history, frames,
                   mounted, lastCmd, subSteps, edits, stepIn, stepDt, stepCalls,
                   restart, rawMs, budget,
                   twin, impact>>

\* variant of handlePause: lastTimeRef keeps the timestamp of the last frame
handlePauseKeepsRef ==
    /\ mounted
    /\ isPlaying
    /\ IF plain = << >> THEN TRUE ELSE plain[1].isPlaying
    /\ isPlaying' = FALSE
    /\ lastTimeRef' = lastTimeRef
    /\ requestRef' = FALSE
    /\ IF Rederives(FALSE, physicsState)
       THEN RederiveEffect(params)
       ELSE UNCHANGED <<physicsState, displayState, history>>
    /\ lastOp' = "handlePause"
    /\ plain' = IF plain = << >> THEN << >>
                ELSE <<AppHandlePause(plain[1], params)>>
    /\ lastCmd' = "Pause"
    /\ fresh' = FALSE
    /\ UNCHANGED <<params, timerLeft, frames, mounted, subSteps, edits, stepIn,
                   stepDt, stepCalls, restart, rawMs, budget,
                   twin, impact>>

\* variant of handlePause: the re-derive effect does not depend on isPlaying
handlePauseNoEffect ==
    /\ mounted
    /\ isPlaying
    /\ IF plain = << >> THEN TRUE ELSE plain[1].isPlaying
    /\ isPlaying' = FALSE
    /\ lastTimeRef' = Null
    /\ requestRef' = FALSE
    /\ lastOp' = "handlePause"
    /\ plain' = IF plain = << >> THEN << >>
                ELSE <<AppHandlePause(plain[1], params)>>
    /\ lastCmd' = "Pause"
    /\ fresh' = FALSE
    /\ UNCHANGED <<params, physicsState, displayState, history, timerLeft,
                   frames, mounted, subSteps, edits, stepIn, stepDt, stepCalls,
                   restart, rawMs, budget, twin, impact>>

\* the Pause button is rendered while playing
handlePause ==
    /\ mounted
    /\ isPlaying
    /\ IF plain = << >> THEN TRUE ELSE plain[1].isPlaying
    /\ isPlaying' = FALSE
    /\ lastTimeRef' = Null
    /\ requestRef' = FALSE
    /\ IF Rederives(FALSE, physicsState)
       THEN RederiveEffect(params)
       ELSE UNCHANGED <<physicsState, displayState, history>>
    /\ lastOp' = "handlePause"
    /\ plain' = IF plain = << >> THEN << >>
                ELSE <<AppHandlePause(plain[1], params)>>
    /\ lastCmd' = "Pause"
    /\ fresh' = FALSE
    /\ UNCHANGED <<params, timerLeft, frames, mounted, subSteps, edits, stepIn,
                   stepDt, stepCalls, restart, rawMs, budget,
                   twin, impact>>

\* ControlPanel.updateParam(key, value) -> onChange -> setParams; the height
\* slider is disabled while playing
updateParam(key, value) ==
    /\ mounted
    /\ edits < MaxEdits
    /\ params[key] # value
    /\ key = "height" => ~isPlaying
    /\ params' = [params EXCEPT ![key] = value]
    /\ edits' = edits + 1
    /\ IF key \in {"height", "gravity"} /\ Rederives(isPlaying, physicsState)
       THEN RederiveEffect(params')
       ELSE UNCHANGED <<physicsState, displayState, history>>
    /\ lastOp' = "updateParam"
    /\ plain' = IF plain = << >> THEN << >>
                ELSE <<AppUpdateParam(plain[1], key, params')>>
    /\ UNCHANGED <<isPlaying, requestRef, lastTimeRef, timerLeft, frames,
                   mounted, lastCmd, subSteps, stepIn, stepDt, stepCalls, restart,
                   fresh, rawMs, budget,
                   twin, impact>>

Next ==
    \/ Mount
    \/ \E d \in FrameGaps : animate(d)
    \/ handleStart
    \/ handlePause
    \/ handleReset
    \/ TimerFire
    \/ \E e \in ParamEdits : updateParam(e[1], e[2])

Spec == Init /\ [][Next]_vars

----------------------------------------------------------------------------
(* The Integrator called directly, as a pure function of (state, params, dt) *)

MaxStepCalls == 3

\* dt of a call: zero, a last partial sub-step, FIXED_STEP, a whole capped frame
StepDts == {0, 60, FIXED_STEP, MAX_FRAME_DT}

\* the defaults; a light ball in vacuum on the Moon; a wide light disc in a
\* dense medium, whose drag overshoots within one step
StepParams ==
    {DEFAULT_PARAMS,
     [mass |-> 100, height |-> 10000, dragCoeff |-> 1, airDensity |-> 0,
      diameter |-> 10, gravity |-> 1620, timeScale |-> 10],
     [mass |-> 1000, height |-> 500000, dragCoeff |-> 200, airDensity |-> 5000,
      diameter |-> 1000, gravity |-> 9810, timeScale |-> 50]}

\* any SimulationState: landed or not, diverged or not, slow or fast
StepStates ==
    [time : {0, 12300},
     y : {NaN, 5, 100000},
     v : {NaN, PosInf, NegInf, 0, -3000, -499990, 499990, -600000},
     a : {0, -9810},
     hasLanded : BOOLEAN]

\* the variables of the component, which a direct call does not touch
AppIdle ==
    /\ displayState = InitialDrop(params)
    /\ history = << >>
    /\ isPlaying = FALSE
    /\ requestRef = FALSE
    /\ lastTimeRef = Null
    /\ timerLeft = Null
    /\ frames = 0
    /\ mounted = FALSE
    /\ lastOp = "init"
    /\ lastCmd = "none"
    /\ subSteps = 0
    /\ edits = 0
    /\ stepDt = 0
    /\ stepCalls = 0
    /\ restart = "none"
    /\ fresh = FALSE
    /\ rawMs = Null
    /\ budget = 0
    /\ twin = Null
    /\ impact = Null
    /\ plain = << >>

InitStep ==
    /\ params \in StepParams
    /\ physicsState \in StepStates
    /\ stepIn = physicsState
    /\ AppIdle

\* physicsState.current = stepPhysics(dt)
CallStep(dt) ==
    /\ stepCalls < MaxStepCalls
    /\ stepCalls' = stepCalls + 1
    /\ stepIn' = physicsState
    /\ stepDt' = dt
    /\ physicsState' = stepPhysics(physicsState, params, dt)
    /\ lastOp' = "stepPhysics"
    /\ plain' = plain
    /\ UNCHANGED <<params, displayState, history, isPlaying, requestRef,
                   lastTimeRef, timerLeft, frames, mounted, lastCmd, subSteps,
                   edits, restart, fresh, rawMs, budget,
                   twin, impact>>

NextStep == \E dt \in StepDts : CallStep(dt)

SpecStep == InitStep /\ [][NextStep]_vars

----------------------------------------------------------------------------
(* The Integrator called directly on the states of a fall *)

\* simulated time already fallen when the direct calls begin
FallTimes == {0, 5000, 14000}

\* the state after falling for t in sub-steps of FIXED_STEP
RECURSIVE FallState(_, _)
FallState(p, t) ==
    IF t <= 0 THEN InitialDrop(p)
    ELSE subStepLoop(FallState(p, t - 2000), p, Min(t, 2000), 0).state

\* the defaults and two settings of the control surface's sliders
FallParams ==
    {DEFAULT_PARAMS,
     [DEFAULT_PARAMS EXCEPT !.height = 10000],
     [DEFAULT_PARAMS EXCEPT !.height = 10000, !.airDensity = 0,
                            !.gravity = 1620]}

InitFall ==
    /\ params \in FallParams
    /\ physicsState \in {FallState(params, t) : t \in FallTimes}
    /\ stepIn = physicsState
    /\ AppIdle

SpecFall == InitFall /\ [][NextStep]_vars

----------------------------------------------------------------------------
(* The two components side by side (SpecPair): both after construction, or  *)
(* both paused in a 10 m drop after PairTicks stalled frames, the state     *)
(* that Mount, the height slider at 10, Start, PairTicks + 1 animate calls  *)
(* 120 ms apart and Pause lead to. frames counts the animate calls from     *)
(* that state on.                                                           *)

PairTicks == 13
PairParams == [DEFAULT_PARAMS EXCEPT !.height = 10000]

\* the history after n stalled frames: one sample per frame
PairHistory(p, n) ==
    [i \in 1..(n + 1) |->
        IF i = 1 THEN InitialSample(p)
        ELSE NewPoint(FallState(p, (i - 1) * MAX_FRAME_DT))]

InitPair ==
    \E mid \in BOOLEAN :
        LET p == IF mid THEN PairParams ELSE DEFAULT_PARAMS
            s == IF mid THEN FallState(p, PairTicks * MAX_FRAME_DT)
                 ELSE InitialDrop(p)
            h == IF mid THEN PairHistory(p, PairTicks) ELSE << >>
        IN  /\ params = p
            /\ physicsState = s
            /\ displayState = s
            /\ history = h
            /\ isPlaying = FALSE
            /\ requestRef = FALSE
            /\ lastTimeRef = Null
            /\ timerLeft = Null
            /\ frames = 0
            /\ mounted = mid
            /\ lastOp = IF mid THEN "handlePause" ELSE "init"
            /\ lastCmd = IF mid THEN "Pause" ELSE "none"
            /\ subSteps = IF mid THEN MAX_FRAME_DT \div FIXED_STEP ELSE 0
            /\ edits = IF mid THEN 1 ELSE 0
            /\ stepIn = InitialDrop(DEFAULT_PARAMS)
            /\ stepDt = 0
            /\ stepCalls = 0
            /\ restart = "none"
            /\ fresh = FALSE
            /\ rawMs = IF mid THEN 120 ELSE Null
            /\ budget = IF mid THEN PairTicks * 1200 ELSE 0
            /\ twin = Null
            /\ impact = Null
            /\ plain = <<AppIdleWith(s, h)>>

SpecPair == InitPair /\ [][Next]_vars

----------------------------------------------------------------------------
(* The history updater of animate on the histories of a long run *)

\* samples already recorded when the ticks begin
HistoryLens == {1, 2, 24, 25, 499, 500}

\* simulated time a tick adds: a sub-step, the sampling interval, a little more
SampleDts == {FIXED_STEP, SAMPLE_INTERVAL, SAMPLE_INTERVAL + 10}

\* a light wide ball, whose terminal velocity is 12.9 m/s, dropped from 200 m
\* and from 10 m
SlowParams ==
    {[DEFAULT_PARAMS EXCEPT !.mass = 1000, !.diameter = 510],
     [DEFAULT_PARAMS EXCEPT !.mass = 1000, !.diameter = 510, !.height = 10000]}

\* the state at the i-th sample of a fall at that velocity, sampled every
\* 0.031 s
SlowState(p, i) ==
    IF i = 1 THEN InitialDrop(p)
    ELSE [time |-> (i - 1) * (SAMPLE_INTERVAL + 10),
          y |-> p.height - (i - 1) * 400, v |-> -12900, a |-> 0,
          hasLanded |-> FALSE]

\* the history of its first n samples
Samples(p, n) ==
    [i \in 1..n |-> IF i = 1 THEN InitialSample(p) ELSE NewPoint(SlowState(p, i))]

InitHistory ==
    /\ params \in SlowParams
    /\ \E n \in HistoryLens :
          /\ SlowState(params, n).y > 0
          /\ history = Samples(params, n)
          /\ physicsState = SlowState(params, n)
    /\ displayState = physicsState
    /\ isPlaying = TRUE
    /\ requestRef = TRUE
    /\ lastTimeRef = 0
    /\ timerLeft = Null
    /\ frames = 0
    /\ mounted = TRUE
    /\ lastOp = "init"
    /\ lastCmd = "Start"
    /\ subSteps = 0
    /\ edits = 0
    /\ stepIn = physicsState
    /\ stepDt = 0
    /\ stepCalls = 0
    /\ restart = "none"
    /\ fresh = FALSE
    /\ rawMs = Null
    /\ budget = 0
    /\ twin = Null
    /\ impact = Null
    /\ plain = << >>

\* an animate call whose deltaTime is dt: the sub-step loop, the publish and
\* setHistory(prev => ...)
setHistory(dt) ==
    /\ ~physicsState.hasLanded
    /\ frames < MaxFrames
    /\ frames' = frames + 1
    /\ LET r == subStepLoop(physicsState, params, dt, 0)
       IN  /\ physicsState' = r.state
           /\ subSteps' = r.calls
           /\ displayState' = r.state
           /\ history' = UpdateHistory(history, r.state)
    /\ lastOp' = "setHistory"
    /\ plain' = plain
    /\ UNCHANGED <<params, isPlaying, requestRef, lastTimeRef, timerLeft,
                   mounted, lastCmd, edits, stepIn, stepDt, stepCalls, restart,
                   fresh, rawMs, budget,
                   twin, impact>>

NextHistory == \E dt \in SampleDts : setHistory(dt)

SpecHistory == InitHistory /\ [][NextHistory]_vars

----------------------------------------------------------------------------
(* Whole drops: stepPhysics(FIXED_STEP) repeated from the drop configuration *)
(* until landing, for two drops that differ only in dragCoeff                *)

\* sub-steps a drop is followed for; the longest drop below lands in 765
MaxRunSteps == 800

\* one notch of the drag-coefficient slider
DragStep == 1

\* the defaults from 200 m; a drop from 20 m without air; drops from 10 m on
\* the Moon without air, of a light wide ball in a dense medium with drag
\* coefficient 0, and of the default ball with the drag coefficients
\* 0.20 .. 0.30
RunParams ==
    {DEFAULT_PARAMS,
     [DEFAULT_PARAMS EXCEPT !.height = 20000, !.airDensity = 0],
     [DEFAULT_PARAMS EXCEPT !.height = 10000, !.airDensity = 0,
                            !.gravity = 1620],
     [DEFAULT_PARAMS EXCEPT !.height = 10000, !.dragCoeff = 0,
                            !.airDensity = 5000, !.diameter = 1000,
                            !.mass = 1000]}
    \cup {[DEFAULT_PARAMS EXCEPT !.height = 10000, !.dragCoeff = c] :
             c \in 20..30}

InitRun ==
    /\ params \in RunParams
    /\ physicsState = InitialDrop(params)
    /\ twin = [params |-> [params EXCEPT !.dragCoeff = @ + DragStep],
               state |-> InitialDrop(params)]
    /\ impact = [run |-> Null, twin |-> Null]
    /\ plain = << >>
    /\ displayState = InitialDrop(params)
    /\ history = << >>
    /\ isPlaying = FALSE
    /\ requestRef = FALSE
    /\ lastTimeRef = Null
    /\ timerLeft = Null
    /\ frames = 0
    /\ mounted = FALSE
    /\ lastOp = "init"
    /\ lastCmd = "none"
    /\ subSteps = 0
    /\ edits = 0
    /\ stepIn = physicsState
    /\ stepDt = 0
    /\ stepCalls = 0
    /\ restart = "none"
    /\ fresh = FALSE
    /\ rawMs = Null
    /\ budget = 0

\* |newV| of the step that lands the drop, kept from then on
ImpactSpeed(old, s, p) ==
    IF old = Null /\ ~s.hasLanded /\ stepPhysics(s, p, FIXED_STEP).hasLanded
    THEN Abs(ClampV(RawNewV(s, p, FIXED_STEP)))
    ELSE old

\* a drop is in flight and the sub-steps are not used up
InFlight ==
    /\ stepCalls < MaxRunSteps
    /\ ~physicsState.hasLanded \/ ~twin.state.hasLanded

\* what every step of the two drops does to the call counter
Counted == InFlight /\ stepCalls' = stepCalls + 1

\* stepPhysics(FIXED_STEP) on both drops
RunStep ==
    /\ Counted
    /\ stepIn' = physicsState
    /\ stepDt' = FIXED_STEP
    /\ physicsState' = stepPhysics(physicsState, params, FIXED_STEP)
    /\ twin' = [twin EXCEPT
                  !.state = stepPhysics(twin.state, twin.params, FIXED_STEP)]
    /\ impact' = [run |-> ImpactSpeed(impact.run, physicsState, params),
                  twin |-> ImpactSpeed(impact.twin, twin.state, twin.params)]
    /\ lastOp' = "stepPhysics"
    /\ plain' = plain
    /\ UNCHANGED <<params, displayState, history, isPlaying, requestRef,
                   lastTimeRef, timerLeft, frames, mounted, lastCmd, subSteps,
                   edits, restart, fresh, rawMs, budget>>

NextRun == RunStep

SpecRun == InitRun /\ [][NextRun]_vars

\* the loop keeps stepping while a drop is in flight; RunStep is enabled
\* exactly when Counted is, and every RunStep is a Counted step
SpecRunFair == SpecRun /\ WF_stepCalls(Counted)

----------------------------------------------------------------------------
(* Properties of the Integrator (SpecStep, SpecFall) *)

DirectCall == lastOp = "stepPhysics"

\* C1: stepPhysics called on a state with hasLanded = TRUE returns that state
\* with time, y, v, a and hasLanded all unchanged, for every params and every
\* dt >= 0; in particular time does not advance.
C1_LandedAbsorbing == (DirectCall /\ stepIn.hasLanded) => physicsState = stepIn

C1_Witness ==
    /\ DirectCall
    /\ stepIn.hasLanded
    /\ stepDt = FIXED_STEP
    /\ stepIn.time = 12300
    /\ physicsState.time = 12300

\* C2: after a stepPhysics call on a non-landed state the velocity is a finite
\* number with |v| <= 500 m/s, whatever the params, the dt and the velocity
\* the call started from.
C2_VelocityClamped ==
    (DirectCall /\ ~stepIn.hasLanded) =>
        /\ isFinite(physicsState.v)
        /\ Abs(physicsState.v) <= MAX_VELOCITY

\* a call whose unclamped velocity exceeds the limit returns the limit
C2_Witness ==
    /\ DirectCall
    /\ ~stepIn.hasLanded
    /\ ~Diverged(stepIn)
    /\ RawNewV(stepIn, params, stepDt) > MAX_VELOCITY
    /\ physicsState.v = MAX_VELOCITY

\* C3: stepPhysics called on a non-landed state whose y is NaN, or whose v is
\* NaN or infinite, integrates nothing and returns the initial drop of the
\* current params: time = 0, y = height, v = 0, a = -gravity, not landed.
C3_DivergenceRecovery ==
    (/\ DirectCall
     /\ ~stepIn.hasLanded
     /\ \/ stepIn.y = NaN
        \/ stepIn.v \in {NaN, PosInf, NegInf})
    => physicsState = [time |-> 0, y |-> params.height, v |-> 0,
                       a |-> -params.gravity, hasLanded |-> FALSE]

C3_Witness ==
    /\ DirectCall
    /\ ~stepIn.hasLanded
    /\ stepIn.y = NaN
    /\ stepIn.v = -3000
    /\ stepIn.time = 12300
    /\ physicsState.time = 0
    /\ physicsState.y = params.height

\* C4 as stated: a stepPhysics call with dt = 0 on a state of a fall leaves
\* time, y, v, a and hasLanded all unchanged.
C4_ZeroStepUnchanged == (DirectCall /\ stepDt = 0) => physicsState = stepIn

\* C4 amended: a stepPhysics call with dt = 0 on a state of a fall leaves time,
\* y, v and hasLanded unchanged; on a state that has not landed it sets a to
\* the net acceleration at the current velocity, and a further call with
\* dt = 0 changes nothing.
C4_ZeroStepRefreshesA ==
    (DirectCall /\ stepDt = 0) =>
        /\ physicsState.time = stepIn.time
        /\ physicsState.y = stepIn.y
        /\ physicsState.v = stepIn.v
        /\ physicsState.hasLanded = stepIn.hasLanded
        /\ physicsState.a = IF stepIn.hasLanded THEN stepIn.a
                            ELSE Accel(params, stepIn.v)
        /\ stepPhysics(physicsState, params, 0) = physicsState

\* a dt = 0 call in mid fall that changed a and nothing else
C4_Witness ==
    /\ DirectCall
    /\ stepDt = 0
    /\ stepIn.v < 0
    /\ physicsState.a # stepIn.a
    /\ physicsState = [stepIn EXCEPT !.a = physicsState.a]

\* the state a direct call was applied to is in flight and finite
FiniteInFlight ==
    /\ DirectCall
    /\ ~stepIn.hasLanded
    /\ isFinite(stepIn.y)
    /\ isFinite(stepIn.v)

\* C27: on a non-landed finite state, step computes
\* a = (-mass * gravity + dragForce(v)) / mass from the velocity before the
\* step, v' = v + a * dt clamped to [-500, 500] m/s, y' = y + v' * dt with the
\* clamped v', time' = time + dt, and returns {y: 0, v: 0, a: 0, time',
\* hasLanded: TRUE} if y' <= 0, {y', v', a, time', hasLanded: FALSE} otherwise.
C27_StepRule ==
    FiniteInFlight =>
        LET a1 == MulDiv(-RoundDiv(params.mass * params.gravity, 1000)
                            + dragForce(params, stepIn.v),
                         1000, params.mass)
            raw == stepIn.v + MulDiv(a1, stepDt, 10000)
            v1 == IF raw > MAX_VELOCITY THEN MAX_VELOCITY
                  ELSE IF raw < -MAX_VELOCITY THEN -MAX_VELOCITY ELSE raw
            y1 == stepIn.y + MulDiv(v1, stepDt, 10000)
            t1 == stepIn.time + stepDt
        IN  physicsState =
                IF y1 <= 0
                THEN [time |-> t1, y |-> 0, v |-> 0, a |-> 0, hasLanded |-> TRUE]
                ELSE [time |-> t1, y |-> y1, v |-> v1, a |-> a1,
                      hasLanded |-> FALSE]

\* a step of 0.1 s from 100 m at 3 m/s that stays in flight, the position
\* moved by the new velocity and not by the old one
C27_Witness ==
    /\ FiniteInFlight
    /\ stepDt = MAX_FRAME_DT
    /\ stepIn.v = -3000
    /\ ~physicsState.hasLanded
    /\ physicsState.v < stepIn.v
    /\ physicsState.y = stepIn.y + MulDiv(physicsState.v, stepDt, 10000)
    /\ physicsState.y # stepIn.y + MulDiv(stepIn.v, stepDt, 10000)
    /\ physicsState.time = stepIn.time + stepDt

\* C28: the drag opposes the velocity and vanishes at v = 0: the acceleration
\* a step computes is >= -gravity when v < 0, <= -gravity when v > 0 and
\* = -gravity when v = 0.
C28_DragOpposesVelocity ==
    (FiniteInFlight /\ ~physicsState.hasLanded) =>
        /\ stepIn.v < 0 => /\ physicsState.a >= -params.gravity
                           /\ dragForce(params, stepIn.v) >= 0
        /\ stepIn.v > 0 => /\ physicsState.a <= -params.gravity
                           /\ dragForce(params, stepIn.v) <= 0
        /\ stepIn.v = 0 => /\ physicsState.a = -params.gravity
                           /\ dragForce(params, stepIn.v) = 0

\* a step on a rising body in air: the drag adds to the weight
C28_Witness ==
    /\ FiniteInFlight
    /\ stepIn.v > 0
    /\ params.airDensity > 0
    /\ ~physicsState.hasLanded
    /\ physicsState.a < -params.gravity

----------------------------------------------------------------------------
(* Properties of the component (Spec) *)

Tick == lastOp = "animate"

\* 10 sub-steps per unit of timeScale, and one more for the remainder that
\* the rounding of remainingDt -= step can leave
SubStepLimit(p) == (MAX_FRAME_DT * p.timeScale) \div (10 * FIXED_STEP) + 1

\* C5 as stated: no animate call makes more than 10 stepPhysics calls, for
\* every frame gap and every timeScale the control surface can set.
C5_AtMostTenSubSteps == Tick => subSteps <= 10

\* C5 amended: an animate call makes at most 10 * timeScale + 1 stepPhysics
\* calls, the 0.1 s cap being applied before the timeScale multiplier: at
\* most 11 at timeScale 1.0 and at most 51 at timeScale 5.0, the largest the
\* control surface can set.
C5_SubStepsBoundedByTimeScale == Tick => subSteps <= SubStepLimit(params)

\* a stalled frame at timeScale 5.0 that made 50 stepPhysics calls
C5_Witness == Tick /\ params.timeScale = 50 /\ subSteps = 50

\* C6: once Pause or Reset has been issued, the machine is not Playing and no
\* frame is scheduled until a later Start is issued, whatever timer or frame
\* callback was pending when the command was issued.
C6_NoRestartWithoutStart ==
    lastCmd \in {"Pause", "Reset"} => ~isPlaying /\ ~requestRef

\* C7: no animate call runs on a landed state, and the first animate call
\* after a Start on a landed state runs on time = 0, y = height, v = 0,
\* hasLanded = FALSE, in the live state and in the published one.
C7_StartOnLandedResetsFirst ==
    [][lastOp' = "animate" =>
          /\ ~physicsState.hasLanded
          /\ ~displayState.hasLanded
          /\ restart = "armed" =>
                /\ physicsState.time = 0
                /\ physicsState.y = params.height
                /\ physicsState.v = 0
                /\ displayState.time = 0
                /\ displayState.y = params.height
                /\ displayState.v = 0]_vars

\* the first animate call after a Start on a landed state has run
C7_Witness == Tick /\ restart = "ticked" /\ lastCmd = "Start"

\* the steps that change the live state by the Integrator or by a Reset
StepOrReset ==
    \/ lastOp' = "animate"
    \/ lastOp' = "handleReset"
    \/ lastOp' = "handleStart" /\ physicsState.hasLanded

\* C8 as stated: the live state is changed only by the Integrator's steps and
\* by Reset (explicit, or implied by Start on a landed state); a Start on a
\* state that has not landed, a Pause and a parameter replacement change no
\* field of it.
C8_OnlyStepAndReset == [][physicsState' # physicsState => StepOrReset]_vars

\* C8 amended: the live state is changed only by the Integrator's steps, by
\* Reset (explicit, or implied by Start on a landed state) and by the
\* parameter effect, which sets y to height and a to -gravity when height or
\* gravity is replaced, or playing stops, while not playing at time = 0;
\* every other command leaves all five fields unchanged.
C8_StepResetOrRederive ==
    [][physicsState' # physicsState =>
          \/ StepOrReset
          \/ /\ lastOp' \in {"updateParam", "handlePause"}
             /\ ~isPlaying'
             /\ physicsState.time = 0
             /\ physicsState' = [physicsState EXCEPT !.y = params'.height,
                                                     !.a = -params'.gravity]]_vars

\* a height edit, before any command, that moved the live state to the new
\* height
C8_Witness ==
    /\ lastOp = "updateParam"
    /\ lastCmd = "none"
    /\ params.height = 10000
    /\ physicsState.y = 10000
    /\ physicsState.time = 0

\* C9: a landed state has y = 0, v = 0 and a = 0, and the only steps that
\* change any field of it are Reset and Start, which make it the initial drop
\* of the current params; ticks, Pause and parameter edits leave it as it is.
C9_LandedFrozen ==
    [][/\ physicsState'.hasLanded =>
            /\ physicsState'.y = 0
            /\ physicsState'.v = 0
            /\ physicsState'.a = 0
       /\ (physicsState.hasLanded /\ physicsState' # physicsState) =>
            /\ lastOp' \in {"handleReset", "handleStart"}
            /\ physicsState' = InitialDrop(params)]_vars

\* a parameter edit made on a landed state, which is still landed
C9_Witness ==
    /\ lastOp = "updateParam"
    /\ physicsState.hasLanded
    /\ physicsState.time > 0
    /\ physicsState.v = 0

\* C10: y >= 0 in the live state, in the published state and in every point
\* of the history.
C10_HeightNonNegative ==
    /\ physicsState.y >= 0
    /\ displayState.y >= 0
    /\ \A i \in DOMAIN history : history[i].position >= 0

\* a landing published and recorded at y = 0 after a fall from above
C10_Witness ==
    /\ physicsState.hasLanded
    /\ displayState.y = 0
    /\ Len(history) > 1
    /\ history[1].position > 0
    /\ history[Len(history)].position = 0

----------------------------------------------------------------------------
(* Properties of the Stepper (Spec) *)

\* C11: while the body has not landed, no step other than a Reset makes
\* physicsState.time smaller: ticks, Start, Pause, the timer and parameter
\* edits leave it as it is or advance it.
C11_TimeMonotonic ==
    [][(~physicsState.hasLanded /\ lastOp' # "handleReset") =>
          physicsState'.time >= physicsState.time]_vars

\* a tick after a parameter edit and several earlier ticks, not yet landed
C11_Witness ==
    /\ Tick
    /\ ~physicsState.hasLanded
    /\ edits > 0
    /\ frames > 2
    /\ physicsState.time > MAX_FRAME_DT

\* C12: the first animate call after playing begins (Start, or resuming from
\* Pause) stores its timestamp in lastTimeRef and changes neither the physics
\* state, nor the published state, nor the history.
C12_FirstTickOnlyBaselines ==
    [][(lastOp' = "animate" /\ fresh) =>
          /\ lastTimeRef' = 0
          /\ physicsState' = physicsState
          /\ displayState' = displayState
          /\ history' = history]_vars

\* the first tick after a resume in mid fall, which integrated nothing
C12_Witness ==
    /\ Tick
    /\ subSteps = 0
    /\ rawMs = Null
    /\ physicsState.time > 0
    /\ ~physicsState.hasLanded
    /\ isPlaying

\* C13: an animate call that finds a timestamp in lastTimeRef and does not
\* land advances physicsState.time by min(rawDt, 0.1 s) * timeScale, rawDt
\* being the wall time since that timestamp, hence by at most
\* 0.1 s * timeScale.
C13_TickAdvance ==
    [][(lastOp' = "animate" /\ lastTimeRef # Null /\ ~physicsState'.hasLanded) =>
          /\ physicsState'.time - physicsState.time =
                (Min(10 * rawMs', MAX_FRAME_DT) * params.timeScale) \div 10
          /\ physicsState'.time - physicsState.time <=
                (MAX_FRAME_DT * params.timeScale) \div 10]_vars

\* a frame that came 120 ms late at timeScale 5.0 and advanced the time by
\* 0.5 s
C13_Witness ==
    /\ Tick
    /\ rawMs = 120
    /\ params.timeScale = 50
    /\ ~physicsState.hasLanded
    /\ physicsState.time = 5 * MAX_FRAME_DT

\* C14: whenever the physics state is landed the machine is not playing, no
\* frame is requested and lastTimeRef is cleared, so no tick runs until
\* playing begins again.
C14_LandingStopsPlaying ==
    physicsState.hasLanded =>
        /\ ~isPlaying
        /\ ~requestRef
        /\ lastTimeRef = Null

\* the state right after the landing tick
C14_Witness ==
    /\ Tick
    /\ physicsState.hasLanded
    /\ ~isPlaying
    /\ subSteps > 0

\* C15: after an animate call that ran the sub-step loop, the published state
\* is the physics state the loop ended with, however many sub-steps ran.
C15_PublishesLoopResult == (Tick /\ subSteps > 0) => displayState = physicsState

\* a tick of 50 sub-steps whose result is the published state
C15_Witness ==
    /\ Tick
    /\ subSteps = 50
    /\ displayState.time = physicsState.time
    /\ displayState.time >= 50 * FIXED_STEP

\* C20: Reset, in any state, makes the physics state and the published state
\* time = 0, y = height, v = 0, a = -gravity, hasLanded = FALSE, makes the
\* history the single initial sample, leaves the machine not playing and
\* changes no parameter.
C20_ResetSemantics ==
    [][lastOp' = "handleReset" =>
          /\ physicsState' = [time |-> 0, y |-> params.height, v |-> 0,
                              a |-> -params.gravity, hasLanded |-> FALSE]
          /\ displayState' = physicsState'
          /\ history' = <<[time |-> 0, position |-> params.height,
                           velocity |-> 0, acceleration |-> -params.gravity]>>
          /\ ~isPlaying'
          /\ params' = params]_vars

\* a Reset issued after ticks at the edited height and gravity
C20_Witness ==
    /\ lastOp = "handleReset"
    /\ subSteps > 0
    /\ params.height = 10000
    /\ params.gravity = 1620
    /\ physicsState.y = 10000
    /\ physicsState.a = -1620
    /\ Len(history) = 1

\* C21: a replacement of height or gravity made while not playing and with
\* physicsState.time = 0 makes y the new height and a minus the new gravity,
\* in the physics state and in the published state, with no Reset.
C21_IdleEditRederives ==
    [][(/\ lastOp' = "updateParam"
        /\ ~isPlaying
        /\ physicsState.time = 0
        /\ (params'.height # params.height \/ params'.gravity # params.gravity))
       => /\ physicsState'.y = params'.height
          /\ physicsState'.a = -params'.gravity
          /\ displayState'.y = params'.height
          /\ displayState'.a = -params'.gravity]_vars

\* gravity and height edited before the first Start, never reset
C21_Witness ==
    /\ lastOp = "updateParam"
    /\ lastCmd = "none"
    /\ params.height = 10000
    /\ params.gravity = 1620
    /\ physicsState.y = 10000
    /\ displayState.y = 10000
    /\ physicsState.a = -1620
    /\ displayState.a = -1620

\* C22: a parameter replacement made while playing, or with
\* physicsState.time > 0 (paused in flight, or landed), leaves the physics
\* state, the published state and the history as they are.
C22_EditElsewhereKeepsState ==
    [][(lastOp' = "updateParam" /\ (isPlaying \/ physicsState.time > 0))
       => UNCHANGED <<physicsState, displayState, history>>]_vars

\* gravity edited during the flight: the stored acceleration is still the one
\* of the last sub-step
C22_Witness ==
    /\ lastOp = "updateParam"
    /\ physicsState.time > 0
    /\ ~physicsState.hasLanded
    /\ params.gravity = 1620
    /\ physicsState.a < -1620
    /\ Len(history) > 1

\* the scaled delta of the animate call just made
TickDelta == (Min(10 * rawMs', MAX_FRAME_DT) * params.timeScale) \div 10

\* the passes of the loop on a budget of delta: delta / FIXED_STEP, rounded up
Passes(delta) == (delta + FIXED_STEP - 1) \div FIXED_STEP

\* C29: an advancing animate call makes n stepPhysics calls with increments
\* of FIXED_STEP, the last one with what is left of the tick's scaled delta
\* when that is less, so physicsState.time advances by
\* min(n * FIXED_STEP, delta). Without a landing every pass makes a call (one
\* more pass can come from the remainder that the rounding of
\* remainingDt -= step leaves) and the advance is delta; a landing is made by
\* the last call, no call follows it and the time stays the one of the landing
\* sub-step.
C29_SubStepIncrements ==
    [][(lastOp' = "animate" /\ lastTimeRef # Null) =>
          LET n == subSteps'
              advance == physicsState'.time - physicsState.time
          IN  /\ n >= 1
              /\ n <= Passes(TickDelta) + 1
              /\ advance = Min(n * FIXED_STEP, TickDelta)
              /\ ~physicsState'.hasLanded =>
                    /\ n >= Passes(TickDelta)
                    /\ advance = TickDelta
              /\ physicsState'.hasLanded =>
                    /\ ~subStepLoop(physicsState, params,
                                    Min((n - 1) * FIXED_STEP, TickDelta),
                                    0).state.hasLanded
                    /\ physicsState' =
                          stepPhysics(subStepLoop(physicsState, params,
                                                  (n - 1) * FIXED_STEP,
                                                  0).state,
                                      params,
                                      Min(FIXED_STEP,
                                          TickDelta - (n - 1) * FIXED_STEP))]_vars

\* a tick that landed the body before its budget of 50 sub-steps was used up
C29_Witness ==
    /\ Tick
    /\ physicsState.hasLanded
    /\ rawMs = 120
    /\ params.timeScale = 50
    /\ subSteps > 1
    /\ subSteps < 50

C32_PauseStartOnlyFlag ==
    [][(\/ lastOp' = "handlePause"
        \/ lastOp' = "handleStart" /\ ~physicsState.hasLanded)
       => UNCHANGED <<physicsState, displayState, history, params>>]_vars

\* C32: Pause, and Start on a non-landed state, leave the parameters
\* unchanged, and the physics state, the published state and the history too,
\* except for a Pause at physicsState.time = 0, which sets y to the current
\* height and a to minus the current gravity in both states and makes the
\* history the single initial sample of the current params.
C32_PauseStartKeepRun ==
    [][(\/ lastOp' = "handlePause"
        \/ lastOp' = "handleStart" /\ ~physicsState.hasLanded)
       => /\ params' = params
          /\ IF lastOp' = "handlePause" /\ physicsState.time = 0
             THEN /\ physicsState' = [physicsState EXCEPT
                                         !.y = params.height,
                                         !.a = -params.gravity]
                  /\ displayState' = [displayState EXCEPT
                                         !.y = params.height,
                                         !.a = -params.gravity]
                  /\ history' = <<[time |-> 0, position |-> params.height,
                                   velocity |-> 0,
                                   acceleration |-> -params.gravity]>>
             ELSE UNCHANGED <<physicsState, displayState, history>>]_vars

\* a Pause in mid flight
C32_Witness ==
    /\ lastOp = "handlePause"
    /\ ~isPlaying
    /\ physicsState.time > 0
    /\ physicsState.v < 0
    /\ ~physicsState.hasLanded
    /\ Len(history) > 1

C34_IdleAtZeroIsDrop ==
    (mounted /\ ~isPlaying /\ physicsState.time = 0) =>
        /\ physicsState = [time |-> 0, y |-> params.height, v |-> 0,
                           a |-> -params.gravity, hasLanded |-> FALSE]
        /\ history = <<[time |-> 0, position |-> params.height, velocity |-> 0,
                        acceleration |-> -params.gravity]>>

\* a Pause before any advancing tick, with the gravity of the Moon
C34_Witness ==
    /\ lastOp = "handlePause"
    /\ physicsState.time = 0
    /\ params.gravity = 1620
    /\ physicsState.a = -1620
    /\ history[1].acceleration = -1620

\* C35: the published state equals the physics state, in all five fields,
\* in every reachable state.
C35_DisplayInSync == displayState = physicsState

\* the two states after a tick in mid flight that followed a parameter edit
C35_Witness ==
    /\ Tick
    /\ edits > 0
    /\ displayState.time > 0
    /\ displayState.v < 0
    /\ displayState.time = physicsState.time
    /\ displayState.y = physicsState.y
    /\ displayState.v = physicsState.v
    /\ displayState.a = physicsState.a
    /\ ~displayState.hasLanded

\* C36: hasLanded is true exactly when y = 0, and y > 0 otherwise.
C36_LandedIffGround ==
    /\ physicsState.hasLanded <=> physicsState.y = 0
    /\ ~physicsState.hasLanded => physicsState.y > 0

\* the landed body on the ground, its landing the last sample of the history
C36_Witness ==
    /\ physicsState.hasLanded
    /\ physicsState.y = 0
    /\ Len(history) > 1
    /\ history[Len(history)].position = 0

\* the scaled wall-clock time that the simulation time is behind
Lag == budget - physicsState.time

\* the scaled time that the cap of 0.1 s cut off the last animate call
CutOff == ((10 * rawMs' - Min(10 * rawMs', MAX_FRAME_DT)) * params.timeScale)
              \div 10

\* C37: the simulation time never exceeds the wall-clock time that elapsed
\* over the advancing ticks since the last reset, each tick scaled by its
\* timeScale; a tick that does not land the body adds to the lag exactly what
\* the cap cut off, and nothing but a reset makes the lag smaller.
C37_NeverAheadOfWallClock ==
    /\ [](physicsState.time <= budget)
    /\ [][/\ (lastOp' = "animate" /\ rawMs' # Null /\ ~physicsState'.hasLanded)
              => Lag' = Lag + CutOff
          /\ (budget' # 0) => Lag' >= Lag]_vars

\* the state after a tick at timeScale 5.0 that the cap cut short: the
\* simulation time is behind the scaled wall clock
C37_Witness ==
    /\ Tick
    /\ rawMs = 120
    /\ params.timeScale = 50
    /\ physicsState.time > 0
    /\ physicsState.time < budget
    /\ ~physicsState.hasLanded

----------------------------------------------------------------------------
(* Properties of the two components side by side (SpecPair) *)

\* the states and the history of src/App.tsx are those of part_000
SameRun ==
    /\ plain[1].physicsState = physicsState
    /\ plain[1].displayState = displayState
    /\ plain[1].history = history

\* C38: given the same ticks and commands, the component of src/App.tsx and
\* that of part_000 have the same physics state, the same display state and
\* the same history for as long as timeScale is 1, the speed stays within
\* MAX_VELOCITY and y and v stay finite.
C38_VariantsAgree ==
    /\ SameRun
    /\ [][(/\ SameRun
           /\ params.timeScale = 10
           /\ params'.timeScale = 10
           /\ Abs(plain'[1].physicsState.v) <= MAX_VELOCITY
           /\ ~Diverged(plain'[1].physicsState))
          => SameRun']_vars

\* both components with the body landed by the same tick, at timeScale 1
C38_Witness ==
    /\ Tick
    /\ params.timeScale = 10
    /\ plain[1].physicsState.hasLanded
    /\ physicsState.hasLanded
    /\ plain[1].history = history
    /\ Len(history) > PairTicks + 1
    /\ ~plain[1].isPlaying

----------------------------------------------------------------------------
(* Properties of whole drops (SpecRun, SpecRunFair) *)

\* C23: a drop stepped with dt = 0.01 from the drop configuration eventually
\* reaches a state with hasLanded = TRUE, y = 0 and v = 0 (SpecRunFair; the
\* default scenario is among the drops).
C23_DropLands ==
    <>(physicsState.hasLanded /\ physicsState.y = 0 /\ physicsState.v = 0)

\* the default drop landed, after more than 700 sub-steps
C23_Witness ==
    /\ params = DEFAULT_PARAMS
    /\ stepCalls > 700
    /\ stepIn.y > 0
    /\ physicsState.hasLanded
    /\ physicsState.y = 0
    /\ physicsState.v = 0

\* C24: the default drop lands at a time greater than the vacuum fall time
\* sqrt(2 * 200 / 9.81) = 6.3855 s.
C24_LandsLaterThanVacuum ==
    (params = DEFAULT_PARAMS /\ physicsState.hasLanded)
        => physicsState.time > 63855

\* the default drop landed more than a second after the vacuum fall time
C24_Witness ==
    /\ params = DEFAULT_PARAMS
    /\ physicsState.hasLanded
    /\ physicsState.time > 63855 + 10000
    /\ physicsState.time = stepCalls * FIXED_STEP

\* height - gravity * t^2 / 2
VacuumY(p, t) == p.height - MulDiv(MulDiv(p.gravity, t, 10000), t, 20000)

\* gravity * t * dt / 2: how far below the parabola the scheme, which moves
\* the body with the velocity at the end of each step, is at time t
SchemeError(p, t) == MulDiv(MulDiv(p.gravity, t, 10000), FIXED_STEP, 20000) + 1

\* what rounding v to 1 mm/s and y to 1 mm in each of the t / dt steps can add
RoundingError(t) ==
    LET n == t \div FIXED_STEP IN (n * (n + 1)) \div 400 + n \div 2 + 2

\* C25: with dragCoeff = 0 or airDensity = 0 every step computes a drag
\* force of zero and stores a = -gravity, and in flight y stays within the
\* scheme's error of the parabola height - gravity * t^2 / 2.
C25_NoDragIsFreeFall ==
    (/\ params.dragCoeff = 0 \/ params.airDensity = 0
     /\ lastOp = "stepPhysics"
     /\ ~physicsState.hasLanded)
    => /\ dragForce(params, stepIn.v) = 0
       /\ physicsState.a = -params.gravity
       /\ physicsState.v = stepIn.v + MulDiv(-params.gravity, FIXED_STEP, 10000)
       /\ VacuumY(params, physicsState.time) - physicsState.y
              <= SchemeError(params, physicsState.time)
                 + RoundingError(physicsState.time)
       /\ physicsState.y - VacuumY(params, physicsState.time)
              <= RoundingError(physicsState.time)

\* a drop in air with drag coefficient 0, a second into its flight
C25_Witness ==
    /\ params.dragCoeff = 0
    /\ params.airDensity > 0
    /\ lastOp = "stepPhysics"
    /\ ~physicsState.hasLanded
    /\ physicsState.time > 10000
    /\ physicsState.a = -params.gravity
    /\ physicsState.y < VacuumY(params, physicsState.time)

\* C26: of two drops that differ only in dragCoeff, the one with the larger
\* dragCoeff (twin) has the strictly smaller impact speed.
C26_MoreDragSlowerImpact ==
    (physicsState.hasLanded /\ twin.state.hasLanded)
        => impact.twin < impact.run

----------------------------------------------------------------------------
(* Properties of the history updater (SpecHistory) *)

Sampled == lastOp = "setHistory"

LastPoint == history[Len(history)]

\* C16: a tick appends a point to the history if and only if the history is
\* empty, or the state's time after the tick is more than 0.03 s after the
\* time of the last point, or the state has landed; it appends at most one
\* point, which carries the time, y, v and a of the state after the tick, and
\* keeps the points before it in their order.
C16_SamplingRule ==
    [][lastOp' = "setHistory" =>
          LET n == Len(history)
              m == Len(history')
              due == \/ n = 0
                     \/ physicsState'.time - history[n].time > SAMPLE_INTERVAL
                     \/ physicsState'.hasLanded
          IN  IF due
              THEN /\ m = Min(n + 1, HISTORY_CAP)
                   /\ history'[m] = [time |-> physicsState'.time,
                                     position |-> physicsState'.y,
                                     velocity |-> physicsState'.v,
                                     acceleration |-> physicsState'.a]
                   /\ \A i \in 1..(m - 1) : history'[i] = history[i + n + 1 - m]
              ELSE history' = history]_vars

\* a tick that ended exactly 0.03 s after the last point and appended nothing
C16_Witness ==
    /\ Sampled
    /\ ~physicsState.hasLanded
    /\ physicsState.time - LastPoint.time = SAMPLE_INTERVAL

\* C17: the history never holds more than 500 entries.
C17_HistoryCapped == Len(history) <= HISTORY_CAP

\* a full history whose oldest point has been evicted
C17_Witness ==
    /\ Sampled
    /\ Len(history) = HISTORY_CAP
    /\ history[1].time > 0
    /\ LastPoint.time = physicsState.time

C19_LandingSampled ==
    physicsState.hasLanded =>
        LastPoint = [time |-> physicsState.time, position |-> 0,
                     velocity |-> 0, acceleration |-> 0]

\* a landing recorded less than 0.03 s after the previous sample
C19_Witness ==
    /\ physicsState.hasLanded
    /\ Len(history) > 1
    /\ LastPoint.position = 0
    /\ LastPoint.time - history[Len(history) - 1].time < SAMPLE_INTERVAL


\* C30: a point appended to a history of 500 entries drops exactly the
\* oldest one: the new history is the entries 2..500 of the old one, in their
\* order, followed by the new point.
C30_EvictsOldest ==
    [][(/\ lastOp' = "setHistory"
        /\ Len(history) = HISTORY_CAP
        /\ \/ physicsState'.time - LastPoint.time > SAMPLE_INTERVAL
           \/ physicsState'.hasLanded)
       => history' = SubSeq(history, 2, HISTORY_CAP)
                        \o <<[time |-> physicsState'.time,
                              position |-> physicsState'.y,
                              velocity |-> physicsState'.v,
                              acceleration |-> physicsState'.a]>>]_vars

\* the first append onto the 500 samples of a long run: the second sample is
\* now the first entry, the 500th is the last but one
C30_Witness ==
    /\ Sampled
    /\ Len(history) = HISTORY_CAP
    /\ history[1] = Samples(params, HISTORY_CAP)[2]
    /\ history[HISTORY_CAP - 1] = Samples(params, HISTORY_CAP)[HISTORY_CAP]
    /\ history[HISTORY_CAP] = NewPoint(physicsState)

====
